---- MODULE Spec2Model ----
(***************************************************************************)
(* Model of src/app.py: the profile-section extractor, the heuristic       *)
(* relevance scorer, the achievement extractor, the message composer and   *)
(* the session history kept by main.                                       *)
(*                                                                         *)
(* Python str values are TLA+ strings; they are taken apart with Len,      *)
(* SubSeq and \o character by character, as the str methods do.            *)
(***************************************************************************)
EXTENDS Integers, Sequences, FiniteSets, TLC

VARIABLES
    pc,               \* position of the modelled function / script
    profile_text,     \* the pasted profile text
    lines,            \* extract_profile_sections: profile_text.split('\n')
    idx,              \* extract_profile_sections: 1-based position of the for loop
    current_section,  \* extract_profile_sections: current_section
    sections,         \* extract_profile_sections: sections
    experience,       \* analyze_experience / extract_achievements: the entry list
    target_position,  \* the target position string
    results,          \* analyze_experience: results
    achievements,     \* extract_achievements: achievements
    pos,              \* 1-based position of the analyze / achievement for loops
    message_history,  \* st.session_state.message_history
    now,              \* the clock read by datetime.now()
    button,           \* main: value of st.button("Generate Message") in the last run
    secrets,          \* main: what st.secrets answered in the last run
    response,         \* query_free_model: what requests.post produced in the last run
    message           \* main: the value generate_message returned in the last run

vars == <<pc, profile_text, lines, idx, current_section, sections, experience,
          target_position, results, achievements, pos, message_history, now,
          button, secrets, response, message>>

-----------------------------------------------------------------------------
(* Bounds of the model *)

\* most lines of a pasted profile text
MaxLines == 3
\* most entries of an experience list
MaxEntries == 4
\* most script runs of one session
MaxRuns == 3

-----------------------------------------------------------------------------
(* Python values and str methods *)

\* Python's None
None == "None"

Min(a, b) == IF a < b THEN a ELSE b

UpperAlphabet == "ABCDEFGHIJKLMNOPQRSTUVWXYZ"
LowerAlphabet == "abcdefghijklmnopqrstuvwxyz"
Digits == "0123456789"

\* the i-th character of s, as a one-character string
Char(s, i) == SubSeq(s, i, i)

\* c in s, for a one-character string c
HasChar(s, c) == \E i \in 1..Len(s) : Char(s, i) = c

\* the lower-case letter of every upper-case letter
LowerMap ==
    [c \in {Char(UpperAlphabet, i) : i \in 1..Len(UpperAlphabet)} |->
        Char(LowerAlphabet, CHOOSE i \in 1..Len(UpperAlphabet) : Char(UpperAlphabet, i) = c)]

\* str.lower() of one character
LowerChar(c) == IF c \in DOMAIN LowerMap THEN LowerMap[c] ELSE c

RECURSIVE Lower(_)
\* str.lower()
Lower(s) == IF s = "" THEN "" ELSE LowerChar(Char(s, 1)) \o Lower(SubSeq(s, 2, Len(s)))

\* s.startswith(k) at offset i (1-based)
MatchAt(s, k, i) == i + Len(k) - 1 <= Len(s) /\ SubSeq(s, i, i + Len(k) - 1) = k

\* k in s
Contains(s, k) == \E i \in 1..(Len(s) - Len(k) + 1) : MatchAt(s, k, i)

\* s.startswith(k)
StartsWith(s, k) == MatchAt(s, k, 1)

\* s.find(k) + 1: the 1-based offset of the first occurrence of k in s, 0 if none
Find(s, k) ==
    IF Contains(s, k)
    THEN CHOOSE i \in 1..(Len(s) - Len(k) + 1) :
            MatchAt(s, k, i) /\ \A j \in 1..(i - 1) : ~MatchAt(s, k, j)
    ELSE 0

RECURSIVE Split(_, _)
\* s.split(sep), sep non-empty
Split(s, sep) ==
    LET i == Find(s, sep) IN
    IF i = 0 THEN <<s>>
    ELSE <<SubSeq(s, 1, i - 1)>> \o Split(SubSeq(s, i + Len(sep), Len(s)), sep)

RECURSIVE Replace(_, _, _)
\* s.replace(old, new), old non-empty
Replace(s, old, new) ==
    LET i == Find(s, old) IN
    IF i = 0 THEN s
    ELSE SubSeq(s, 1, i - 1) \o new \o Replace(SubSeq(s, i + Len(old), Len(s)), old, new)

RECURSIVE Join(_, _)
\* sep.join(parts)
Join(sep, parts) ==
    IF parts = <<>> THEN ""
    ELSE IF Len(parts) = 1 THEN parts[1]
    ELSE parts[1] \o sep \o Join(sep, Tail(parts))

\* str.isspace() of one character
IsSpace(c) == c \in {" ", "\t", "\n", "\r"}

RECURSIVE LStrip(_)
LStrip(s) == IF s # "" /\ IsSpace(Char(s, 1)) THEN LStrip(SubSeq(s, 2, Len(s))) ELSE s

RECURSIVE RStrip(_)
RStrip(s) ==
    IF s # "" /\ IsSpace(Char(s, Len(s))) THEN RStrip(SubSeq(s, 1, Len(s) - 1)) ELSE s

\* str.strip()
Strip(s) == RStrip(LStrip(s))

\* any(keyword in s for keyword in keywords), keywords a sequence
AnyIn(keywords, s) == \E i \in 1..Len(keywords) : Contains(s, keywords[i])

\* seq[:k]
Take(seq, k) == SubSeq(seq, 1, Min(k, Len(seq)))

\* all sequences over S of length lo..hi
SeqsOf(S, lo, hi) == UNION {[1..k -> S] : k \in lo..hi}

-----------------------------------------------------------------------------
(* extract_profile_sections *)

\* the header length limit of the section extractor
HeaderMaxLen == 30

\* the sections dict as created on entry
EmptySections ==
    [experience |-> <<>>, education |-> <<>>, skills |-> <<>>, summary |-> "",
     achievements |-> <<>>, certifications |-> <<>>]

\* the keys of sections that hold a list
ListSections == {"experience", "education", "skills", "achievements", "certifications"}

\* mutant of HeaderOf: the education test comes before the experience test
HeaderOfEducationFirst(line) ==
    LET lower_line == Lower(line) IN
    IF Contains(lower_line, "education") /\ Len(line) < HeaderMaxLen
    THEN "education"
    ELSE IF AnyIn(<<"experience", "work history">>, lower_line) /\ Len(line) < HeaderMaxLen
    THEN "experience"
    ELSE IF AnyIn(<<"skills", "expertise">>, lower_line) /\ Len(line) < HeaderMaxLen
    THEN "skills"
    ELSE IF AnyIn(<<"summary", "about">>, lower_line) /\ Len(line) < HeaderMaxLen
    THEN "summary"
    ELSE IF AnyIn(<<"achievement", "accomplishment">>, lower_line) /\ Len(line) < HeaderMaxLen
    THEN "achievements"
    ELSE IF AnyIn(<<"certification", "license">>, lower_line) /\ Len(line) < HeaderMaxLen
    THEN "certifications"
    ELSE None

\* mutant of HeaderOf: the summary test comes before the skills test
HeaderOfSummaryBeforeSkills(line) ==
    LET lower_line == Lower(line) IN
    IF AnyIn(<<"experience", "work history">>, lower_line) /\ Len(line) < HeaderMaxLen
    THEN "experience"
    ELSE IF Contains(lower_line, "education") /\ Len(line) < HeaderMaxLen
    THEN "education"
    ELSE IF AnyIn(<<"summary", "about">>, lower_line) /\ Len(line) < HeaderMaxLen
    THEN "summary"
    ELSE IF AnyIn(<<"skills", "expertise">>, lower_line) /\ Len(line) < HeaderMaxLen
    THEN "skills"
    ELSE IF AnyIn(<<"achievement", "accomplishment">>, lower_line) /\ Len(line) < HeaderMaxLen
    THEN "achievements"
    ELSE IF AnyIn(<<"certification", "license">>, lower_line) /\ Len(line) < HeaderMaxLen
    THEN "certifications"
    ELSE None

\* mutant of HeaderOf: the length test is <= instead of <
HeaderOfLengthInclusive(line) ==
    LET lower_line == Lower(line) IN
    IF AnyIn(<<"experience", "work history">>, lower_line) /\ Len(line) <= HeaderMaxLen
    THEN "experience"
    ELSE IF Contains(lower_line, "education") /\ Len(line) <= HeaderMaxLen
    THEN "education"
    ELSE IF AnyIn(<<"skills", "expertise">>, lower_line) /\ Len(line) <= HeaderMaxLen
    THEN "skills"
    ELSE IF AnyIn(<<"summary", "about">>, lower_line) /\ Len(line) <= HeaderMaxLen
    THEN "summary"
    ELSE IF AnyIn(<<"achievement", "accomplishment">>, lower_line) /\ Len(line) <= HeaderMaxLen
    THEN "achievements"
    ELSE IF AnyIn(<<"certification", "license">>, lower_line) /\ Len(line) <= HeaderMaxLen
    THEN "certifications"
    ELSE None

\* the if / elif chain deciding whether a stripped line is a header: the section
\* it switches to, None when the line falls through to the content branch
HeaderOf(line) ==
    LET lower_line == Lower(line) IN
    IF AnyIn(<<"experience", "work history">>, lower_line) /\ Len(line) < HeaderMaxLen
    THEN "experience"
    ELSE IF Contains(lower_line, "education") /\ Len(line) < HeaderMaxLen
    THEN "education"
    ELSE IF AnyIn(<<"skills", "expertise">>, lower_line) /\ Len(line) < HeaderMaxLen
    THEN "skills"
    ELSE IF AnyIn(<<"summary", "about">>, lower_line) /\ Len(line) < HeaderMaxLen
    THEN "summary"
    ELSE IF AnyIn(<<"achievement", "accomplishment">>, lower_line) /\ Len(line) < HeaderMaxLen
    THEN "achievements"
    ELSE IF AnyIn(<<"certification", "license">>, lower_line) /\ Len(line) < HeaderMaxLen
    THEN "certifications"
    ELSE None

\* mutant of ScanLine: the header branch lacks its continue, so a header line is
\* also stored in the section it opens
ScanLineStoresHeader(st, raw) ==
    LET line == Strip(raw)
        section == IF HeaderOf(line) # None THEN HeaderOf(line) ELSE st.current_section
    IN  IF line = "" THEN st
        ELSE IF section # None
        THEN IF section = "summary"
             THEN [current_section |-> section,
                   sections |-> [st.sections EXCEPT !.summary = @ \o line \o " "]]
             ELSE [current_section |-> section,
                   sections |-> [st.sections EXCEPT ![section] = Append(@, line)]]
        ELSE st

\* one iteration of the for loop over lines: st is [current_section, sections],
\* raw the element of lines; the result is the pair after the iteration
ScanLine(st, raw) ==
    LET line == Strip(raw) IN
    IF line = "" THEN st
    ELSE IF HeaderOf(line) # None
    THEN [st EXCEPT !.current_section = HeaderOf(line)]
    ELSE IF st.current_section # None
    THEN IF st.current_section = "summary"
         THEN [st EXCEPT !.sections.summary = @ \o line \o " "]
         ELSE [st EXCEPT !.sections[st.current_section] = Append(@, line)]
    ELSE st

RECURSIVE ScanFrom(_, _, _)
\* the for loop from position i on
ScanFrom(st, ls, i) ==
    IF i > Len(ls) THEN st ELSE ScanFrom(ScanLine(st, ls[i]), ls, i + 1)

\* extract_profile_sections(text): the sections it returns
extract_profile_sections(text) ==
    ScanFrom([current_section |-> None, sections |-> EmptySections],
             Split(text, "\n"), 1).sections

\* raw lines a pasted profile is made of
RawLines ==
    { "",
      "Experience",
      "  Work History ",
      "Education",
      "Skills Summary",
      "About",
      "Key Accomplishments",
      "Licenses",
      "Technologies",
      "Education and Work Experience",
      "Education and Work Experiences",
      "Software Engineer at Acme " }

\* the profile texts of at most MaxLines lines
Texts == {Join("\n", ls) : ls \in SeqsOf(RawLines, 1, MaxLines)}

\* the value of response while no request has been made
NoRequest == [kind |-> "no_request", text |-> ""]

\* the variables the extractor does not use
analyzeVars == <<experience, target_position, results, achievements, pos>>
sessionVars == <<message_history, now, button, secrets, response, message>>

AnalyzeIdle ==
    /\ experience = <<>>
    /\ target_position = ""
    /\ results = <<>>
    /\ achievements = <<>>
    /\ pos = 1

SessionIdle ==
    /\ message_history = <<>>
    /\ now = 0
    /\ button = FALSE
    /\ secrets = None
    /\ response = NoRequest
    /\ message = None

\* entry of extract_profile_sections, up to the for loop
InitExtract ==
    /\ pc = "extract"
    /\ profile_text \in Texts
    /\ lines = Split(profile_text, "\n")
    /\ idx = 1
    /\ current_section = None
    /\ sections = EmptySections
    /\ AnalyzeIdle
    /\ SessionIdle

\* one iteration of the for loop
ExtractLine ==
    /\ pc = "extract"
    /\ idx <= Len(lines)
    /\ LET st == ScanLine([current_section |-> current_section, sections |-> sections],
                          lines[idx]) IN
        /\ current_section' = st.current_section
        /\ sections' = st.sections
    /\ idx' = idx + 1
    /\ UNCHANGED <<pc, profile_text, lines>>
    /\ UNCHANGED analyzeVars
    /\ UNCHANGED sessionVars

\* return sections
ExtractReturn ==
    /\ pc = "extract"
    /\ idx > Len(lines)
    /\ pc' = "extracted"
    /\ UNCHANGED <<profile_text, lines, idx, current_section, sections>>
    /\ UNCHANGED analyzeVars
    /\ UNCHANGED sessionVars

NextExtract == ExtractLine \/ ExtractReturn

SpecExtract == InitExtract /\ [][NextExtract]_vars

-----------------------------------------------------------------------------
(* Claims about extract_profile_sections, checked under SpecExtract *)

\* the stripped i-th line
Stripped(i) == Strip(lines[i])

\* for every line, the section it is treated as a header of (None: not a header)
HeaderMarks == [i \in 1..Len(lines) |-> HeaderOf(Stripped(i))]

\* the position of the last header line before position i, 0 if there is none;
\* h is HeaderMarks
LastHeaderBefore(h, i) ==
    IF \E j \in 1..(i - 1) : h[j] # None
    THEN CHOOSE j \in 1..(i - 1) : h[j] # None /\ \A k \in (j + 1)..(i - 1) : h[k] = None
    ELSE 0

\* the section that is current when line i is scanned
SectionWhenScanned(h, i) ==
    IF LastHeaderBefore(h, i) = 0 THEN None ELSE h[LastHeaderBefore(h, i)]

\* line i is non-empty once stripped and is not treated as a header
IsContent(h, i) == Stripped(i) # "" /\ h[i] = None

RECURSIVE ContentOf(_, _, _)
\* the content lines among the first k lines that were scanned while s was current,
\* in input order, one element per line occurrence
ContentOf(h, s, k) ==
    IF k = 0 THEN <<>>
    ELSE ContentOf(h, s, k - 1) \o
         (IF IsContent(h, k) /\ SectionWhenScanned(h, k) = s THEN <<Stripped(k)>> ELSE <<>>)

RECURSIVE ConcatWithSpace(_)
\* each element followed by one space, concatenated
ConcatWithSpace(seq) ==
    IF seq = <<>> THEN "" ELSE seq[1] \o " " \o ConcatWithSpace(Tail(seq))

\* C1: after any number of scanned lines, every section holds exactly the
\* non-empty stripped non-header lines that were scanned while that section was
\* current, one element per line occurrence and in input order (Summary holds
\* them concatenated, each followed by a space); so a line is stored in at most
\* one section and at most once, and a line scanned before the first header is
\* stored nowhere.
C1_StoredLinesAreTheContentOfTheirSection ==
    pc \in {"extract", "extracted"} =>
        \A h \in {HeaderMarks} :
            /\ \A s \in ListSections : sections[s] = ContentOf(h, s, idx - 1)
            /\ sections.summary = ConcatWithSpace(ContentOf(h, "summary", idx - 1))

\* C1 witness: the scan is over; a content line before the first header was
\* dropped, the header after it was not stored, and the content line after the
\* header is the only line stored.
C1_Witness ==
    /\ pc = "extracted"
    /\ Len(lines) = 3
    /\ \E h \in {HeaderMarks} :
        /\ IsContent(h, 1) /\ h[2] \in ListSections /\ IsContent(h, 3)
        /\ sections = [EmptySections EXCEPT ![h[2]] = <<Stripped(3)>>]

\* a step of the for loop
ScanStep == pc = "extract" /\ idx <= Len(lines) /\ idx' = idx + 1

\* the stripped line the loop is about to scan
NextLine == Strip(lines[idx])

\* what the content branch leaves in sections for a line
Stored(line) ==
    IF current_section = None THEN sections
    ELSE IF current_section = "summary"
    THEN [sections EXCEPT !.summary = @ \o line \o " "]
    ELSE [sections EXCEPT ![current_section] = Append(@, line)]

\* C2: scanning a line shorter than 30 characters whose lower-cased text contains
\* "experience" or "work history" makes Experience the current section and
\* stores nothing.
C2_ExperienceHeader ==
    [][(/\ ScanStep
        /\ Len(NextLine) < 30
        /\ \/ Contains(Lower(NextLine), "experience")
           \/ Contains(Lower(NextLine), "work history"))
       => (current_section' = "experience" /\ sections' = sections)]_vars

\* C2 witness: a short line naming both education and experience was scanned
\* while Education was current and holding content; Experience is current now.
C2_Witness ==
    /\ idx > 1
    /\ Len(Stripped(idx - 1)) < 30
    /\ Contains(Lower(Stripped(idx - 1)), "experience")
    /\ Contains(Lower(Stripped(idx - 1)), "education")
    /\ SectionWhenScanned(HeaderMarks, idx - 1) = "education"
    /\ sections.education # <<>>
    /\ current_section = "experience"

\* the rule table of the claim as written: label and keyword set, in priority order
ClaimedRules ==
    << <<"experience", {"experience", "work history"}>>,
       <<"education", {"education"}>>,
       <<"skills", {"skills", "expertise", "technologies"}>>,
       <<"summary", {"summary", "about", "overview"}>>,
       <<"achievements", {"achievement", "accomplishment", "award"}>>,
       <<"certifications", {"certification", "license", "qualification"}>> >>

\* the rule table of the amended claim
AmendedRules ==
    << <<"experience", {"experience", "work history"}>>,
       <<"education", {"education"}>>,
       <<"skills", {"skills", "expertise"}>>,
       <<"summary", {"summary", "about"}>>,
       <<"achievements", {"achievement", "accomplishment"}>>,
       <<"certifications", {"certification", "license"}>> >>

\* rule r has a keyword occurring in the lower-cased line
RuleMatches(rules, r, lower_line) == \E k \in rules[r][2] : Contains(lower_line, k)

\* the label of the first rule with a keyword in the line, None if there is none
FirstLabel(rules, line) ==
    LET lower_line == Lower(line)
        hit == [r \in 1..Len(rules) |-> RuleMatches(rules, r, lower_line)]
    IN  IF \E r \in 1..Len(rules) : hit[r]
        THEN rules[CHOOSE r \in 1..Len(rules) : hit[r] /\ \A q \in 1..(r - 1) : ~hit[q]][1]
        ELSE None

\* C3 as written: a line shorter than 30 characters with a keyword of the claimed
\* table switches to the first matching label and is not stored.
C3_ClaimedKeywordTable ==
    [][(ScanStep /\ NextLine # "" /\ Len(NextLine) < 30
            /\ FirstLabel(ClaimedRules, NextLine) # None)
       => (/\ current_section' = FirstLabel(ClaimedRules, NextLine)
           /\ sections' = sections)]_vars

\* C3 amended: with the keyword sets experience / work history, education,
\* skills / expertise, summary / about, achievement / accomplishment,
\* certification / license, a line shorter than 30 characters with a keyword
\* switches to the first matching label and is not stored; a line with none of
\* these keywords is not a header.
C3_KeywordTable ==
    [][(ScanStep /\ NextLine # "" /\ Len(NextLine) < 30)
       => IF FirstLabel(AmendedRules, NextLine) # None
          THEN /\ current_section' = FirstLabel(AmendedRules, NextLine)
               /\ sections' = sections
          ELSE /\ current_section' = current_section
               /\ sections' = Stored(NextLine)]_vars

\* C3 witness: a short line naming both skills and summary made Skills current,
\* and a short line holding only "technologies" was stored as content.
C3_Witness ==
    /\ idx > 2
    /\ Contains(Lower(Stripped(idx - 2)), "skills")
    /\ Contains(Lower(Stripped(idx - 2)), "summary")
    /\ Len(Stripped(idx - 2)) < 30
    /\ Lower(Stripped(idx - 1)) = "technologies"
    /\ current_section = "skills"
    /\ sections.skills = <<Stripped(idx - 1)>>

\* C4: scanning a line of 30 characters or more that contains a section keyword
\* leaves the current section as it is and appends the line to it (for Summary,
\* concatenates it with a trailing space), or drops it if no section is current.
C4_LongLineIsContent ==
    [][(ScanStep /\ Len(NextLine) >= 30 /\ FirstLabel(ClaimedRules, NextLine) # None)
       => (current_section' = current_section /\ sections' = Stored(NextLine))]_vars

\* C4 witness: a line of at least 30 characters with a keyword was scanned while
\* Summary was current and was concatenated to it.
C4_Witness ==
    /\ idx > 1
    /\ Len(Stripped(idx - 1)) >= 30
    /\ FirstLabel(ClaimedRules, Stripped(idx - 1)) # None
    /\ SectionWhenScanned(HeaderMarks, idx - 1) = "summary"
    /\ current_section = "summary"
    /\ sections.summary = Stripped(idx - 1) \o " "

-----------------------------------------------------------------------------
(* analyze_experience and extract_achievements *)

\* the relevant_keywords dict, in insertion order: role-family name and keywords
relevant_keywords ==
    << <<"developer", <<"coding", "programming", "software", "development", "engineering">> >>,
       <<"manager", <<"lead", "managing", "leadership", "team", "strategy">> >>,
       <<"analyst", <<"analysis", "data", "research", "reporting", "metrics">> >> >>

\* next((k for k in relevant_keywords.keys() if k in target.lower()), 'general')
position_type(target) ==
    LET lower_target == Lower(target)
        found == {i \in 1..Len(relevant_keywords) :
                     Contains(lower_target, relevant_keywords[i][1])}
    IN  IF found = {} THEN "general"
        ELSE relevant_keywords[CHOOSE i \in found : \A j \in found : i <= j][1]

\* relevant_keywords.get(position_type, [])
KeywordsOf(ptype) ==
    IF \E i \in 1..Len(relevant_keywords) : relevant_keywords[i][1] = ptype
    THEN relevant_keywords[CHOOSE i \in 1..Len(relevant_keywords) :
                              relevant_keywords[i][1] = ptype][2]
    ELSE <<>>

\* mutant of TopExperiences: the slice is missing
TopExperiencesAll(exps) == exps

\* experience[:3], the entries the loop of analyze_experience visits
TopExperiences(exps) == Take(exps, 3)

\* mutant of Relevance: the cap at 100 is missing
RelevanceUncapped(exp, keywords) ==
    LET lower_exp == Lower(exp)
        relevance == Cardinality({i \in 1..Len(keywords) : Contains(lower_exp, keywords[i])}) * 20
    IN  relevance + 40

\* min(relevance + 40, 100), relevance = 20 per keyword found in exp.lower()
Relevance(exp, keywords) ==
    LET lower_exp == Lower(exp)
        relevance == Cardinality({i \in 1..Len(keywords) : Contains(lower_exp, keywords[i])}) * 20
    IN  Min(relevance + 40, 100)

\* an element of exp.split('. ') that holds a keyword once lower-cased
PointMatches(point, keywords) == AnyIn(keywords, Lower(point))

RECURSIVE FilterPoints(_, _)
\* [point for point in points if any(keyword in point.lower() for keyword in keywords)]
FilterPoints(points, keywords) ==
    IF points = <<>> THEN <<>>
    ELSE (IF PointMatches(Head(points), keywords) THEN <<Head(points)>> ELSE <<>>)
         \o FilterPoints(Tail(points), keywords)

\* mutant of MatchingPoints: the fallback to the whole entry is missing
MatchingPointsNoFallback(exp, keywords) == FilterPoints(Split(exp, ". "), keywords)

\* matching_points if matching_points else [exp]
MatchingPoints(exp, keywords) ==
    LET matching_points == FilterPoints(Split(exp, ". "), keywords) IN
    IF matching_points # <<>> THEN matching_points ELSE <<exp>>

\* the dict appended to results for one entry
AnalyzeEntry(exp, keywords) ==
    [relevance |-> Relevance(exp, keywords),
     matching_points |-> MatchingPoints(exp, keywords)]

\* analyze_experience(exps, target): the list it returns
analyze_experience(exps, target) ==
    LET keywords == KeywordsOf(position_type(target)) IN
    [i \in 1..Len(TopExperiences(exps)) |-> AnalyzeEntry(exps[i], keywords)]

\* str.isdigit() of one character
IsDigit(c) == c # "" /\ HasChar(Digits, c)

\* re.search(r'\d+%', s)
SearchPercent(s) == \E i \in 1..(Len(s) - 1) : IsDigit(Char(s, i)) /\ Char(s, i + 1) = "%"

\* re.search(r'\$\d+', s)
SearchDollar(s) == \E i \in 1..(Len(s) - 1) : Char(s, i) = "$" /\ IsDigit(Char(s, i + 1))

\* the literal patterns of achievement_indicators
IndicatorWords ==
    <<"increased", "decreased", "improved", "launched", "led", "managed", "created", "developed">>

\* mutant of HasIndicator: the entry is not lower-cased
HasIndicatorCaseSensitive(exp) ==
    SearchPercent(exp) \/ SearchDollar(exp) \/ AnyIn(IndicatorWords, exp)

\* any(re.search(indicator, exp.lower()) for indicator in achievement_indicators)
HasIndicator(exp) ==
    LET lower_exp == Lower(exp) IN
    SearchPercent(lower_exp) \/ SearchDollar(lower_exp) \/ AnyIn(IndicatorWords, lower_exp)

RECURSIVE CollectAchievements(_)
\* the for loop of extract_achievements
CollectAchievements(exps) ==
    IF exps = <<>> THEN <<>>
    ELSE (IF HasIndicator(Head(exps)) THEN <<Head(exps)>> ELSE <<>>)
         \o CollectAchievements(Tail(exps))

\* achievements[:3]
TopAchievements(found) == Take(found, 3)

\* extract_achievements(exps): the list it returns
extract_achievements(exps) == TopAchievements(CollectAchievements(exps))

\* experience entries
Entries ==
    { "Led software development. Managed team",
      "Coding SOFTWARE engineering development 9 % $ x",
      "Team leadership. Up 20%. Data analysis",
      "Saved $5k on research. " }

\* target positions
Positions ==
    { "Manager of Developers", "Data Analyst Manager", "Junior ANALYST", "Nurse" }

extractVars == <<profile_text, lines, idx, current_section, sections>>

ExtractIdle ==
    /\ profile_text = ""
    /\ lines = <<>>
    /\ idx = 1
    /\ current_section = None
    /\ sections = EmptySections

\* entry of analyze_experience, up to its for loop
InitAnalyze ==
    /\ pc = "analyze"
    /\ experience \in SeqsOf(Entries, 0, MaxEntries)
    /\ target_position \in Positions
    /\ results = <<>>
    /\ achievements = <<>>
    /\ pos = 1
    /\ ExtractIdle
    /\ SessionIdle

\* entry of extract_achievements, up to its for loop
InitAchievements ==
    /\ pc = "achievements"
    /\ experience \in SeqsOf(Entries, 0, MaxEntries)
    /\ target_position = ""
    /\ results = <<>>
    /\ achievements = <<>>
    /\ pos = 1
    /\ ExtractIdle
    /\ SessionIdle

\* one iteration of the for loop of analyze_experience
AnalyzeStep ==
    /\ pc = "analyze"
    /\ pos <= Len(TopExperiences(experience))
    /\ results' = Append(results,
                         AnalyzeEntry(TopExperiences(experience)[pos],
                                      KeywordsOf(position_type(target_position))))
    /\ pos' = pos + 1
    /\ UNCHANGED <<pc, experience, target_position, achievements>>
    /\ UNCHANGED extractVars
    /\ UNCHANGED sessionVars

\* return results
AnalyzeReturn ==
    /\ pc = "analyze"
    /\ pos > Len(TopExperiences(experience))
    /\ pc' = "analyzed"
    /\ UNCHANGED <<experience, target_position, results, achievements, pos>>
    /\ UNCHANGED extractVars
    /\ UNCHANGED sessionVars

\* one iteration of the for loop of extract_achievements
AchievementStep ==
    /\ pc = "achievements"
    /\ pos <= Len(experience)
    /\ achievements' = IF HasIndicator(experience[pos])
                       THEN Append(achievements, experience[pos])
                       ELSE achievements
    /\ pos' = pos + 1
    /\ UNCHANGED <<pc, experience, target_position, results>>
    /\ UNCHANGED extractVars
    /\ UNCHANGED sessionVars

\* return achievements[:3]
AchievementsReturn ==
    /\ pc = "achievements"
    /\ pos > Len(experience)
    /\ achievements' = TopAchievements(achievements)
    /\ pc' = "achieved"
    /\ UNCHANGED <<experience, target_position, results, pos>>
    /\ UNCHANGED extractVars
    /\ UNCHANGED sessionVars

NextAnalyze == AnalyzeStep \/ AnalyzeReturn

SpecAnalyze == InitAnalyze /\ [][NextAnalyze]_vars

NextAchievements == AchievementStep \/ AchievementsReturn

SpecAchievements == InitAchievements /\ [][NextAchievements]_vars

-----------------------------------------------------------------------------
(* Claims about analyze_experience, checked under SpecAnalyze, and about
   extract_achievements, checked under SpecAchievements *)

\* the keywords of the first of developer, manager, analyst whose name occurs in
\* the lower-cased target position; no keywords if none occurs
SelectedKeywords ==
    LET t == Lower(target_position)
        kw(name) == {relevant_keywords[i][2][j] :
                        i \in {r \in 1..Len(relevant_keywords) : relevant_keywords[r][1] = name},
                        j \in 1..5}
    IN  IF Contains(t, "developer") THEN kw("developer")
        ELSE IF Contains(t, "manager") THEN kw("manager")
        ELSE IF Contains(t, "analyst") THEN kw("analyst")
        ELSE {}

\* the number of the keywords in ks that occur in the lower-cased entry
KeywordCount(entry, ks) ==
    LET count(e) == Cardinality({k \in ks : Contains(e, k)}) IN
    CHOOSE n \in {count(e) : e \in {Lower(entry)}} : TRUE

\* C6: every score is min(100, 40 + 20 * k), k the number of selected keywords
\* occurring in the lower-cased entry; it lies in {40, 60, 80, 100} and is 40
\* when no role-family name occurs in the target position.
C6_RelevanceScore ==
    \A ks \in {SelectedKeywords} :
        \A i \in 1..Len(results) :
            /\ results[i].relevance = Min(100, 40 + 20 * KeywordCount(experience[i], ks))
            /\ results[i].relevance \in {40, 60, 80, 100}
            /\ (\A n \in {"developer", "manager", "analyst"} :
                    ~Contains(Lower(target_position), n)) => results[i].relevance = 40

\* C6 witness: an entry holding four keywords of the developer profile, selected
\* by a target position that also names manager, is scored 100.
C6_Witness ==
    /\ Contains(Lower(target_position), "manager")
    /\ Contains(Lower(target_position), "developer")
    /\ Len(results) >= 1
    /\ KeywordCount(experience[Len(results)], SelectedKeywords) = 4
    /\ results[Len(results)].relevance = 100

\* C7: analyze_experience returns min(3, n) results for n entries, result i
\* describing entry i alone (its score and its matching points); no entry after
\* the third is visited.
C7_FirstThreeEntries ==
    /\ pc = "analyze" => Len(results) = pos - 1
    /\ pc = "analyzed" => Len(results) = Min(3, Len(experience))
    /\ Len(results) <= 3
    /\ \A ks \in {KeywordsOf(position_type(target_position))} :
          \A i \in 1..Len(results) : results[i] = AnalyzeEntry(experience[i], ks)

\* C7 witness: four entries were given and three results returned.
C7_Witness ==
    /\ pc = "analyzed"
    /\ Len(experience) = 4
    /\ experience[4] # experience[3]
    /\ Len(results) = 3

\* an entry qualifies: its lower-cased text contains a digit followed by "%", a
\* "$" followed by a digit, or one of the eight verbs
Qualifies(entry) ==
    LET e == Lower(entry) IN
    \/ \E d \in 0..9 : Contains(e, Char(Digits, d + 1) \o "%")
    \/ \E d \in 0..9 : Contains(e, "$" \o Char(Digits, d + 1))
    \/ \E v \in {"increased", "decreased", "improved", "launched", "led", "managed",
                 "created", "developed"} : Contains(e, v)

RECURSIVE FirstQualifying(_, _)
\* the first k qualifying entries of seq, in order
FirstQualifying(seq, k) ==
    IF seq = <<>> \/ k = 0 THEN <<>>
    ELSE IF Qualifies(Head(seq)) THEN <<Head(seq)>> \o FirstQualifying(Tail(seq), k - 1)
    ELSE FirstQualifying(Tail(seq), k)

\* C8: extract_achievements returns the first three (or fewer) qualifying entries
\* in their original order; at most three, none when no entry qualifies.
C8_FirstThreeQualifying ==
    pc = "achieved" =>
        /\ achievements = FirstQualifying(experience, 3)
        /\ Len(achievements) <= 3
        /\ (\A i \in 1..Len(experience) : ~Qualifies(experience[i])) => achievements = <<>>

\* C8 witness: of four entries the first does not qualify and the other three
\* are returned.
C8_Witness ==
    /\ pc = "achieved"
    /\ Len(experience) = 4
    /\ ~Qualifies(experience[1])
    /\ achievements = Tail(experience)

RECURSIVE KeepPieces(_, _)
\* the pieces that contain a keyword of ks, case-insensitively, in order
KeepPieces(pieces, ks) ==
    IF pieces = <<>> THEN <<>>
    ELSE (IF KeywordCount(Head(pieces), ks) > 0 THEN <<Head(pieces)>> ELSE <<>>)
         \o KeepPieces(Tail(pieces), ks)

-----------------------------------------------------------------------------
(* init_huggingface, query_free_model, generate_message and main *)

\* init_huggingface(): the key it returns, "stop" when it ends the script run
\* with st.stop(); sec is what st.secrets answers
init_huggingface(sec) ==
    IF sec = "absent" THEN "hf_dummy_key"
    ELSE IF sec = "present" THEN "hf_key"
    ELSE "stop"

\* the string query_free_model returns from its except branch
ErrorText == "Error generating message. Please try again."

\* query_free_model(prompt, api_key): resp is what requests.post and
\* response.json()[0]['generated_text'] produce: a text, a value that is not a
\* str, or an exception
query_free_model(resp) ==
    IF resp.kind = "text" THEN resp.text
    ELSE IF resp.kind = "null_text" THEN None
    ELSE ErrorText

\* relevant_exp: matching_points[0] of the analyses scored above 60; "IndexError"
\* where matching_points is empty
RelevantExp(analysis) ==
    [i \in {j \in 1..Len(analysis) : analysis[j].relevance > 60} |->
        IF analysis[i].matching_points = <<>> THEN "IndexError"
        ELSE analysis[i].matching_points[1]]

\* generate_message(...): the message it returns, None from its except branch
generate_message(profile_sections, target, resp) ==
    LET experience_analysis == analyze_experience(profile_sections.experience, target)
        relevant_exp == RelevantExp(experience_analysis)
        raw == query_free_model(resp)
        replaced == Replace(raw, "\\n", "\n")
    IN  IF \E i \in DOMAIN relevant_exp : relevant_exp[i] = "IndexError" THEN None
        ELSE IF raw = None THEN None
        ELSE IF ~StartsWith(replaced, "Hi") /\ ~StartsWith(replaced, "Dear")
        THEN "Hi [Name],\n\n" \o replaced
        ELSE replaced

\* mutant of AppendHistory: only the last two entries are kept
AppendHistoryKeepLast(history, entry) ==
    LET all == Append(history, entry) IN
    IF Len(all) > 2 THEN SubSeq(all, Len(all) - 1, Len(all)) ELSE all

\* st.session_state.message_history.append({...})
AppendHistory(history, entry) == Append(history, entry)

\* values of the profile text area
ProfileTexts ==
    { "", "Experience\nLed software development. Managed team\nSkills\nPython, Go" }

\* values of the target position input
TargetPositions == { "", "Senior Developer" }

\* what the inference API call can produce
Responses ==
    { [kind |-> "text", text |-> "Hi Ana, we are hiring."],
      [kind |-> "text", text |-> "Join us.\\nReply today."],
      [kind |-> "null_text", text |-> ""],
      [kind |-> "network_error", text |-> ""],
      [kind |-> "malformed_response", text |-> ""],
      [kind |-> "quota", text |-> ""] }

\* the responses with which the external model call fails
FailureKinds == {"network_error", "malformed_response", "quota"}

\* the session starts with an empty history (main, first run)
Init ==
    /\ pc = "session"
    /\ ExtractIdle
    /\ AnalyzeIdle
    /\ SessionIdle

\* the condition of the Generate branch of main
Generates(b, text, target) == b /\ text # "" /\ target # ""

\* a script run that does not enter the Generate branch
RunIdle ==
    /\ pc = "session"
    /\ now < MaxRuns
    /\ \E b \in BOOLEAN, text \in ProfileTexts, target \in TargetPositions :
        /\ ~Generates(b, text, target)
        /\ button' = b
        /\ profile_text' = text
        /\ target_position' = target
    /\ now' = now + 1
    /\ secrets' = None
    /\ response' = NoRequest
    /\ message' = None
    /\ UNCHANGED <<pc, lines, idx, current_section, sections, experience, results,
                   achievements, pos, message_history>>

\* a script run that enters the Generate branch and is ended by st.stop() in
\* init_huggingface
RunStopped ==
    /\ pc = "session"
    /\ now < MaxRuns
    /\ \E text \in ProfileTexts, target \in TargetPositions :
        /\ Generates(TRUE, text, target)
        /\ init_huggingface("error") = "stop"
        /\ button' = TRUE
        /\ profile_text' = text
        /\ target_position' = target
    /\ now' = now + 1
    /\ secrets' = "error"
    /\ response' = NoRequest
    /\ message' = None
    /\ UNCHANGED <<pc, lines, idx, current_section, sections, experience, results,
                   achievements, pos, message_history>>

\* a script run that enters the Generate branch and calls generate_message
RunGenerate ==
    /\ pc = "session"
    /\ now < MaxRuns
    /\ \E text \in ProfileTexts, target \in TargetPositions :
        /\ Generates(TRUE, text, target)
        /\ button' = TRUE
        /\ profile_text' = text
        /\ target_position' = target
        /\ \E profile_sections \in {extract_profile_sections(text)} :
           \E sec \in {"absent", "present"}, resp \in Responses :
            /\ init_huggingface(sec) # "stop"
            /\ secrets' = sec
            /\ response' = resp
            /\ message' = generate_message(profile_sections, target, resp)
            /\ message_history' =
                  IF message' # None /\ message' # ""
                  THEN AppendHistory(message_history,
                                     [timestamp |-> now + 1, message |-> message',
                                      position |-> target])
                  ELSE message_history
    /\ now' = now + 1
    /\ UNCHANGED <<pc, lines, idx, current_section, sections, experience, results,
                   achievements, pos>>

Next == RunIdle \/ RunStopped \/ RunGenerate

Spec == Init /\ [][Next]_vars

-----------------------------------------------------------------------------
(* Claims about the message composer and the session history, checked under
   Spec *)

\* C5: whenever the external model call fails (network error, malformed
\* response, quota), generate_message reports the failure instead of returning a
\* message string, and the run stores nothing in the history.
C5_FailedCallYieldsNoMessage ==
    response.kind \in FailureKinds =>
        /\ message = None
        /\ \A i \in 1..Len(message_history) : message_history[i].timestamp # now

\* C10: a run appends exactly one entry at the end of the history when the
\* button was pressed with non-empty profile text and target position and
\* generate_message returned a non-empty message, and leaves the history as it
\* is otherwise; earlier entries are never removed, reordered or modified, and
\* no bound is applied to the length.
C10_HistoryAppendOnly ==
    [][IF button' /\ profile_text' # "" /\ target_position' # ""
          /\ message' # None /\ message' # ""
       THEN /\ Len(message_history') = Len(message_history) + 1
            /\ SubSeq(message_history', 1, Len(message_history)) = message_history
            /\ message_history'[Len(message_history')].message = message'
            /\ message_history'[Len(message_history')].position = target_position'
       ELSE message_history' = message_history]_vars

\* C10 witness: three runs have appended three entries in the order of the runs.
C10_Witness ==
    /\ Len(message_history) = 3
    /\ \A i \in 1..3 : message_history[i].timestamp = i
    /\ message_history[3].message = message
    /\ message_history[1].message # message_history[2].message

====
